---- MODULE Spec2Model ----
(***************************************************************************)
(* gtr-cof: the music-theory core (namespace music), the state coordinator *)
(* (namespace state) and the parts of the three views (cof, modes, gtr)    *)
(* that feed user gestures back into the coordinator.                      *)
(***************************************************************************)
EXTENDS Integers, Sequences, FiniteSets, TLC

VARIABLES
    \* namespace state
    listeners,      \* state.listeners: the registered callbacks, in order
    currentTonic,   \* state.currentTonic
    currentMode,    \* state.currentMode
    \* module initialisation (cof.init(); modes.init(); gtr.init();)
    pc,
    \* namespace cof: the datum bound to the segment of each note name
    segData,
    \* what the last call of updateListeners did
    calls,          \* number of updateListeners calls so far
    stateChange,    \* the StateChange object of the last call
    prevChange,     \* the StateChange object of the call before it
    lastOp,         \* the operation that made the last call
    lastTriad,      \* the triad argument of the last call (NoTriad if none)
    lastChord,      \* the argument of the most recent changeChord
    deliveries,     \* the listener invocations of the last call, in order
    received,       \* per listener: number of invocations so far
    seen,           \* per listener: tonic and mode of the last invocation
    \* direct calls of the pure functions of namespace music
    fn, inTonic, inMode, inTriad, outNotes, outScale, outType

stateVars == <<listeners, currentTonic, currentMode>>
viewVars  == <<pc, segData>>
callVars  == <<calls, stateChange, prevChange, lastOp, lastTriad, lastChord,
               deliveries, received, seen>>
musicVars == <<fn, inTonic, inMode, inTriad, outNotes, outScale, outType>>
vars      == <<stateVars, viewVars, callVars, musicVars>>

\* Bound on the number of state-changing gestures of one run.
MaxCalls == 3

\* JavaScript arrays are 0-based.
At0(arr, i) == arr[i + 1]

\* The value of an absent optional number (chordNote?: number).
Undefined == -1

\* The value of an absent triad (triad?: music.Triad, note.triad of a plain Note).
NoTriad == <<>>

(***************************************************************************)
(* namespace music                                                         *)
(***************************************************************************)

notes ==
    << [name |-> "C",  index |-> 0],
       [name |-> "C#", index |-> 1],
       [name |-> "D",  index |-> 2],
       [name |-> "D#", index |-> 3],
       [name |-> "E",  index |-> 4],
       [name |-> "F",  index |-> 5],
       [name |-> "F#", index |-> 6],
       [name |-> "G",  index |-> 7],
       [name |-> "G#", index |-> 8],
       [name |-> "A",  index |-> 9],
       [name |-> "A#", index |-> 10],
       [name |-> "B",  index |-> 11] >>

modes ==
    << [name |-> "Lydian",           index |-> 3],
       [name |-> "Major / Ionian",   index |-> 0],
       [name |-> "Mixolydian",       index |-> 4],
       [name |-> "Dorian",           index |-> 1],
       [name |-> "N Minor / Aolian", index |-> 5],
       [name |-> "Phrygian",         index |-> 2],
       [name |-> "Locrian",          index |-> 6] >>

scaleTones == <<2, 2, 1, 2, 2, 2, 1>>

romanNumeral == <<"i", "ii", "iii", "iv", "v", "vi", "vii">>

\* enum ChordType { Major, Minor, Diminished }
ChordType == {"Major", "Minor", "Diminished"}

Range(s) == {s[i] : i \in DOMAIN s}

Notes == Range(notes)
Modes == Range(modes)
NoteNames == {n.name : n \in Notes}

\* for (i = 0; i < 12; i++) { items.push(current); current = notes[(current.index + 7) % 12]; }
RECURSIVE fifthsLoop(_, _, _)
fifthsLoop(i, items, current) ==
    IF i < 12
    THEN fifthsLoop(i + 1, Append(items, current), At0(notes, (current.index + 7) % 12))
    ELSE items

\* Variant of fifths that advances by 5 semitones (a fourth) per step.
fifthsStep5 ==
    LET RECURSIVE loop(_, _, _)
        loop(i, items, current) ==
            IF i < 12
            THEN loop(i + 1, Append(items, current), At0(notes, (current.index + 5) % 12))
            ELSE items
    IN loop(0, <<>>, At0(notes, 0))

fifths == fifthsLoop(0, <<>>, At0(notes, 0))

\* Variant of interval without the + 12 wrap for a descending pair.
intervalNoWrap(a, b) == b.index - a.index

interval(a, b) ==
    IF a.index <= b.index THEN b.index - a.index ELSE (b.index + 12) - a.index

\* Variant of getChordType that tests the minor third before the diminished fifth.
getChordTypeMinorFirst(triad) ==
    IF interval(triad[1], triad[2]) = 3 THEN "Minor"
    ELSE IF interval(triad[1], triad[3]) = 6 THEN "Diminished"
    ELSE "Major"

\* triad[0], triad[1], triad[2] of the code are triad[1], triad[2], triad[3] here.
getChordType(triad) ==
    IF interval(triad[1], triad[3]) = 6 THEN "Diminished"
    ELSE IF interval(triad[1], triad[2]) = 3 THEN "Minor"
    ELSE "Major"

\* First loop of scale: the 7 notes of the scale.
RECURSIVE notesOfScaleLoop(_, _, _, _)
notesOfScaleLoop(i, notesOfScale, noteIndex, mode) ==
    IF i < 7
    THEN notesOfScaleLoop(i + 1,
                          Append(notesOfScale, At0(notes, noteIndex)),
                          (noteIndex + At0(scaleTones, (i + mode.index) % 7)) % 12,
                          mode)
    ELSE notesOfScale

\* Variant of the ScaleNote literal whose degreeName is upper case on Major degrees.
scaleNoteAtCased(notesOfScale, i) ==
    LET note  == At0(notesOfScale, i)
        triad == << At0(notesOfScale, i),
                    At0(notesOfScale, (i + 2) % 7),
                    At0(notesOfScale, (i + 4) % 7) >>
        upper == <<"I", "II", "III", "IV", "V", "VI", "VII">>
    IN [ name       |-> note.name,
         index      |-> note.index,
         degree     |-> i,
         degreeName |-> IF getChordType(triad) = "Major"
                        THEN At0(upper, i) ELSE At0(romanNumeral, i),
         triad      |-> triad,
         chordType  |-> getChordType(triad),
         chordNote  |-> Undefined ]

\* Second loop of scale: one ScaleNote per note. The object literal sets no
\* chordNote, so the property reads as undefined.
scaleNoteAt(notesOfScale, i) ==
    LET note  == At0(notesOfScale, i)
        triad == << At0(notesOfScale, i),
                    At0(notesOfScale, (i + 2) % 7),
                    At0(notesOfScale, (i + 4) % 7) >>
    IN [ name       |-> note.name,
         index      |-> note.index,
         degree     |-> i,
         degreeName |-> At0(romanNumeral, i),
         triad      |-> triad,
         chordType  |-> getChordType(triad),
         chordNote  |-> Undefined ]

\* Variant of scale that advances noteIndex before the first push.
scaleAdvanceFirst(tonic, mode) ==
    LET first == (tonic.index + At0(scaleTones, mode.index % 7)) % 12
        notesOfScale == notesOfScaleLoop(0, <<>>, first, mode)
    IN [k \in 1..7 |-> scaleNoteAt(notesOfScale, k - 1)]

\* Variant of scale that reads the step pattern without the mode rotation.
scaleIgnoringMode(tonic, mode) ==
    LET notesOfScale == notesOfScaleLoop(0, <<>>, tonic.index, At0(modes, 1))
    IN [k \in 1..7 |-> scaleNoteAt(notesOfScale, k - 1)]

\* Variant of scale that hands out the array of the last broadcast again when
\* tonic and mode are unchanged.
scaleCached(tonic, mode) ==
    IF calls > 0 /\ stateChange.tonic.index = tonic.index /\ stateChange.mode = mode
    THEN stateChange.scale
    ELSE LET notesOfScale == notesOfScaleLoop(0, <<>>, tonic.index, mode)
         IN [k \in 1..7 |-> scaleNoteAt(notesOfScale, k - 1)]

scale(tonic, mode) ==
    LET notesOfScale == notesOfScaleLoop(0, <<>>, tonic.index, mode)
    IN [k \in 1..7 |-> scaleNoteAt(notesOfScale, k - 1)]

\* Inner loop of appendTriad on one note: a later matching slot overwrites.
RECURSIVE appendTriadNote(_, _, _)
appendTriadNote(note, triad, i) ==
    IF i < 3
    THEN appendTriadNote(
             IF note.name = At0(triad, i).name
             THEN [note EXCEPT !.chordNote = i]
             ELSE note,
             triad, i + 1)
    ELSE note

\* appendTriad writes chordNote into the notes of the array it is given and
\* returns that same array.
appendTriad(scl, triad) ==
    [k \in DOMAIN scl |-> appendTriadNote(scl[k], triad, 0)]

(***************************************************************************)
(* namespace state and the listeners the three views register              *)
(***************************************************************************)

ListenerIds == {"cof.update", "modes.update", "gtr.update"}

\* The value of stateChange and seen before the first call of updateListeners.
NoChange == [tonic |-> At0(notes, 0), mode |-> At0(modes, 1), scale |-> <<>>]

\* note.triad of the datum bound to a segment: a plain Note has none.
triadOf(note) == IF "triad" \in DOMAIN note THEN note.triad ELSE NoTriad

\* generateSegments: one segment per entry of fifths(); the data joins of
\* cof key the segments by note name (indexer).
generateSegments ==
    [nm \in {fifths[i].name : i \in DOMAIN fifths} |->
        fifths[CHOOSE i \in DOMAIN fifths : fifths[i].name = nm /\
                   \A j \in DOMAIN fifths : fifths[j].name = nm => i <= j] ]

\* cof.update: each selection is re-joined by note name with the notes of the
\* broadcast scale; a matched segment gets the new ScaleNote as its datum, an
\* unmatched (exit) segment keeps the datum it had.
cofUpdate(sd, sc) ==
    [nm \in DOMAIN sd |->
        IF \E k \in DOMAIN sc.scale : sc.scale[k].name = nm
        THEN sc.scale[CHOOSE k \in DOMAIN sc.scale : sc.scale[k].name = nm]
        ELSE sd[nm]]

\* One invocation listener(stateChange) and its effect on the views.
invoke(l, sc, st) ==
    [st EXCEPT
        !.segData    = IF l = "cof.update" THEN cofUpdate(@, sc) ELSE @,
        !.deliveries = Append(@, [listener |-> l, change |-> sc]),
        !.received   = [@ EXCEPT ![l] = @ + 1],
        !.seen       = [@ EXCEPT ![l] = [tonic |-> sc.tonic, mode |-> sc.mode]] ]

\* Variant of the listener loop that starts at the second listener.
RECURSIVE notifyLoopFromSecond(_, _, _, _)
notifyLoopFromSecond(ls, i, sc, st) ==
    IF i + 1 <= Len(ls)
    THEN notifyLoopFromSecond(ls, i + 1, sc, invoke(ls[i + 1], sc, st))
    ELSE st

\* for (let listener of listeners) { listener(stateChange); }
RECURSIVE notifyLoop(_, _, _, _)
notifyLoop(ls, i, sc, st) ==
    IF i <= Len(ls)
    THEN notifyLoop(ls, i + 1, sc, invoke(ls[i], sc, st))
    ELSE st

\* updateListeners runs after the assignment of its caller, so it reads the
\* new currentTonic and currentMode. The scale array, the StateChange object
\* and the result of the listener loop are each computed once.
updateListeners(triad) ==
    \E fresh \in {scale(currentTonic', currentMode')} :
    \E scl \in {IF triad # NoTriad THEN appendTriad(fresh, triad) ELSE fresh} :
    \E sc \in {[tonic |-> currentTonic', mode |-> currentMode', scale |-> scl]} :
    \E st \in {notifyLoop(listeners, 1, sc,
                     [segData |-> segData, deliveries |-> <<>>,
                      received |-> received, seen |-> seen])} :
       /\ stateChange' = sc
       /\ prevChange' = stateChange
       /\ lastTriad' = triad
       /\ calls' = calls + 1
       /\ segData' = st.segData
       /\ deliveries' = st.deliveries
       /\ received' = st.received
       /\ seen' = st.seen

addListener(listener) == listeners' = Append(listeners, listener)

\* Variant of changeTonic that passes the last selected chord on.
changeTonicKeepChord(newTonic) ==
    /\ currentTonic' = newTonic
    /\ currentMode' = currentMode
    /\ updateListeners(lastChord)
    /\ lastOp' = "changeTonic"
    /\ UNCHANGED <<listeners, lastChord>>

changeTonic(newTonic) ==
    /\ currentTonic' = newTonic
    /\ currentMode' = currentMode
    /\ updateListeners(NoTriad)
    /\ lastOp' = "changeTonic"
    /\ UNCHANGED <<listeners, lastChord>>

changeMode(newMode) ==
    /\ currentMode' = newMode
    /\ currentTonic' = currentTonic
    /\ updateListeners(NoTriad)
    /\ lastOp' = "changeMode"
    /\ UNCHANGED <<listeners, lastChord>>

changeChord(triad) ==
    /\ UNCHANGED <<currentTonic, currentMode>>
    /\ updateListeners(triad)
    /\ lastOp' = "changeChord"
    /\ lastChord' = triad
    /\ UNCHANGED listeners

(***************************************************************************)
(* Module initialisation and the click handlers of the views               *)
(***************************************************************************)

cofInit ==
    /\ pc = "cof.init"
    /\ segData' = generateSegments
    /\ addListener("cof.update")
    /\ pc' = "modes.init"
    /\ UNCHANGED <<currentTonic, currentMode, callVars, musicVars>>

modesInit ==
    /\ pc = "modes.init"
    /\ addListener("modes.update")
    /\ pc' = "gtr.init"
    /\ UNCHANGED <<currentTonic, currentMode, segData, callVars, musicVars>>

gtrInit ==
    /\ pc = "gtr.init"
    /\ addListener("gtr.update")
    /\ pc' = "ready"
    /\ UNCHANGED <<currentTonic, currentMode, segData, callVars, musicVars>>

\* cof.handleNoteClick: the datum of the clicked note segment becomes the tonic.
handleNoteClick ==
    /\ pc = "ready" /\ calls < MaxCalls
    /\ \E nm \in DOMAIN segData : changeTonic(segData[nm])
    /\ UNCHANGED <<pc, musicVars>>

\* modes.handleButtonClick: the buttons are bound to music.modes.
handleButtonClick ==
    /\ pc = "ready" /\ calls < MaxCalls
    /\ \E m \in Modes : changeMode(m)
    /\ UNCHANGED <<pc, musicVars>>

\* cof.handleChordClick: the triad of the datum of the clicked chord segment.
handleChordClick ==
    /\ pc = "ready" /\ calls < MaxCalls
    /\ \E nm \in DOMAIN segData : changeChord(triadOf(segData[nm]))
    /\ UNCHANGED <<pc, musicVars>>

(***************************************************************************)
(* Direct calls of the pure functions                                      *)
(***************************************************************************)

progVars == <<stateVars, viewVars, callVars>>

CallFifths ==
    /\ fn = "idle"
    /\ fn' = "fifths"
    /\ outNotes' = fifths
    /\ UNCHANGED <<inTonic, inMode, inTriad, outScale, outType, progVars>>

CallScale ==
    /\ fn = "idle"
    /\ \E t \in Notes, m \in Modes :
         /\ inTonic' = t
         /\ inMode' = m
         /\ outScale' = scale(t, m)
    /\ fn' = "scale"
    /\ UNCHANGED <<inTriad, outNotes, outType, progVars>>

CallGetChordType ==
    /\ fn = "idle"
    /\ \E a \in Notes, b \in Notes, c \in Notes :
         /\ inTriad' = <<a, b, c>>
         /\ outType' = getChordType(<<a, b, c>>)
    /\ fn' = "getChordType"
    /\ UNCHANGED <<inTonic, inMode, outNotes, outScale, progVars>>

(***************************************************************************)
(* Specifications                                                          *)
(***************************************************************************)

Init ==
    /\ listeners = <<>>
    /\ currentTonic = At0(notes, 0)
    /\ currentMode = At0(modes, 1)
    /\ pc = "cof.init"
    /\ segData = <<>>
    /\ calls = 0
    /\ stateChange = NoChange
    /\ prevChange = NoChange
    /\ lastOp = "none"
    /\ lastTriad = NoTriad
    /\ lastChord = NoTriad
    /\ deliveries = <<>>
    /\ received = [l \in ListenerIds |-> 0]
    /\ seen = [l \in ListenerIds |-> [tonic |-> NoChange.tonic, mode |-> NoChange.mode]]
    /\ fn = "idle"
    /\ inTonic = At0(notes, 0)
    /\ inMode = At0(modes, 1)
    /\ inTriad = NoTriad
    /\ outNotes = <<>>
    /\ outScale = <<>>
    /\ outType = "none"

Next ==
    \/ cofInit
    \/ modesInit
    \/ gtrInit
    \/ handleNoteClick
    \/ handleButtonClick
    \/ handleChordClick

Spec == Init /\ [][Next]_vars

NextMusic ==
    \/ CallFifths
    \/ CallScale
    \/ CallGetChordType

SpecMusic == Init /\ [][NextMusic]_vars

(***************************************************************************)
(* Properties of the pure functions (checked under SpecMusic)              *)
(***************************************************************************)

Ionian  == At0(modes, 1)
Aeolian == At0(modes, 4)

\* Ascending circular distance in semitones.
Dist(x, y) == (y.index - x.index) % 12

RECURSIVE SumSeq(_)
SumSeq(s) == IF s = <<>> THEN 0 ELSE Head(s) + SumSeq(Tail(s))

\* C1: fifths() returns exactly 12 pitches starting at C, each next entry 7
\* semitones above the previous one mod 12, and the 12 entries are all 12
\* pitches of the catalog, none repeated.
C1_Fifths ==
    fn = "fifths" =>
        /\ Len(outNotes) = 12
        /\ outNotes[1] = [name |-> "C", index |-> 0]
        /\ \A i \in 1..11 : outNotes[i + 1].index = (outNotes[i].index + 7) % 12
        /\ {outNotes[i] : i \in 1..12} = Notes
        /\ \A i, j \in 1..12 : outNotes[i] = outNotes[j] => i = j

C1_Witness ==
    fn = "fifths" /\ Len(outNotes) = 12 /\ outNotes[2].name = "G" /\ outNotes[12].name = "F"

\* C2: scale(tonic, mode) has exactly 7 entries with degrees 0..6 in order,
\* the tonic at degree 0, every pitch index in 0..11, and the 7 ascending
\* intervals between consecutive degrees (with the wrap) sum to 12.
C2_ScaleShape ==
    fn = "scale" =>
        /\ Len(outScale) = 7
        /\ \A k \in 1..7 : outScale[k].degree = k - 1
        /\ outScale[1].name = inTonic.name
        /\ outScale[1].index = inTonic.index
        /\ \A k \in 1..7 : outScale[k].index \in 0..11
        /\ SumSeq([k \in 1..7 |-> Dist(outScale[k], outScale[(k % 7) + 1])]) = 12

C2_Witness ==
    /\ fn = "scale" /\ inTonic.name = "B" /\ inMode.name = "Locrian"
    /\ Len(outScale) = 7 /\ outScale[2].name = "C"

MajorOffsets == <<0, 2, 4, 5, 7, 9, 11>>
MajorChords  == <<"Major", "Minor", "Minor", "Major", "Major", "Minor", "Diminished">>
RomanLabels  == <<"i", "ii", "iii", "iv", "v", "vi", "vii">>

\* C3: for every tonic t the Major / Ionian scale has the pitches at offsets
\* 0,2,4,5,7,9,11 from t (C,D,E,F,G,A,B for C), degreeNames i..vii and chord
\* types Major,Minor,Minor,Major,Major,Minor,Diminished; in every mode the
\* degreeName is the label of the position, whatever the chordType.
C3_MajorScale ==
    fn = "scale" =>
        /\ \A k \in 1..7 : outScale[k].degreeName = RomanLabels[k]
        /\ inMode = Ionian =>
             /\ \A k \in 1..7 :
                  /\ outScale[k].index = (inTonic.index + MajorOffsets[k]) % 12
                  /\ outScale[k].name = notes[outScale[k].index + 1].name
                  /\ outScale[k].chordType = MajorChords[k]
             /\ inTonic.name = "C" =>
                  [k \in 1..7 |-> outScale[k].name] = <<"C", "D", "E", "F", "G", "A", "B">>

C3_Witness ==
    /\ fn = "scale" /\ inTonic.name = "C" /\ inMode = Ionian
    /\ outScale[7].name = "B" /\ outScale[7].chordType = "Diminished"

\* C8: modal rotation. If t is degree k of the Ionian scale of t', then degree
\* i of scale(t, mode with index k) has the pitch and the chordType of degree
\* (i + k) mod 7 of the Ionian scale of t'; the catalog indices are Lydian 3,
\* Ionian 0, Mixolydian 4, Dorian 1, Aeolian 5, Phrygian 2, Locrian 6; and
\* scale(A, Aeolian) is A,B,C,D,E,F,G with a Minor degree 0.
C8_ModalRotation ==
    /\ [i \in 1..7 |-> modes[i].index] = <<3, 0, 4, 1, 5, 2, 6>>
    /\ fn = "scale" =>
        /\ \A t2 \in Notes :
             LET major == scale(t2, Ionian)
                 k     == inMode.index
             IN major[k + 1].index = inTonic.index =>
                  \A i \in 0..6 :
                     /\ outScale[i + 1].index = major[((i + k) % 7) + 1].index
                     /\ outScale[i + 1].name = major[((i + k) % 7) + 1].name
                     /\ outScale[i + 1].chordType = major[((i + k) % 7) + 1].chordType
        /\ (inTonic.name = "A" /\ inMode = Aeolian) =>
             /\ [k \in 1..7 |-> outScale[k].name] = <<"A", "B", "C", "D", "E", "F", "G">>
             /\ outScale[1].chordType = "Minor"

C8_Witness ==
    /\ fn = "scale" /\ inTonic.name = "A" /\ inMode = Aeolian
    /\ inMode.index = 5
    /\ scale(At0(notes, 0), Ionian)[6].name = "A"
    /\ outScale[3].name = "C"

\* C9: getChordType(a, b, c) is Diminished when the ascending circular
\* distance a -> c is 6, otherwise Minor when the distance a -> b is 3,
\* otherwise Major; the distance is always in 0..11.
C9_Classify ==
    /\ fn = "getChordType" =>
        LET a == inTriad[1]
            b == inTriad[2]
            c == inTriad[3]
        IN /\ interval(a, b) \in 0..11 /\ interval(a, c) \in 0..11
           /\ interval(a, b) = Dist(a, b) /\ interval(a, c) = Dist(a, c)
           /\ outType = IF Dist(a, c) = 6 THEN "Diminished"
                        ELSE IF Dist(a, b) = 3 THEN "Minor"
                        ELSE "Major"
           /\ (a.name = "C" /\ b.name = "D#" /\ c.name = "F#") => outType = "Diminished"
           /\ (a.name = "C" /\ b.name = "D#" /\ c.name = "G") => outType = "Minor"
           /\ (a.name = "C" /\ b.name = "E" /\ c.name = "G") => outType = "Major"

\* A triple whose third pitch is below its first one, at distance 6, and
\* whose second pitch is at distance 3: the first rule decides.
C9_Witness ==
    /\ fn = "getChordType"
    /\ inTriad[1].name = "A" /\ inTriad[2].name = "C" /\ inTriad[3].name = "D#"
    /\ outType = "Diminished"

\* C10: the 7 pitches of a scale are pairwise distinct, degree i carries the
\* triad <<scale[i], scale[(i+2) mod 7], scale[(i+4) mod 7]>>, a Major degree
\* has distances (4,7), a Minor one (3,7), a Diminished one (3,6), and every
\* scale has exactly 3 Major, 3 Minor and 1 Diminished degree.
C10_Harmonisation ==
    fn = "scale" =>
        /\ \A i, j \in 1..7 : outScale[i].index = outScale[j].index => i = j
        /\ \A k \in 1..7 :
             LET d  == outScale[k]
                 nt(j) == [name |-> outScale[j].name, index |-> outScale[j].index]
                 d3 == Dist(d.triad[1], d.triad[2])
                 d5 == Dist(d.triad[1], d.triad[3])
             IN /\ d.triad = << nt(k), nt(((k + 1) % 7) + 1), nt(((k + 3) % 7) + 1) >>
                /\ d.triad[1].index = d.index
                /\ d.chordType = "Major" => (d3 = 4 /\ d5 = 7)
                /\ d.chordType = "Minor" => (d3 = 3 /\ d5 = 7)
                /\ d.chordType = "Diminished" => (d3 = 3 /\ d5 = 6)
        /\ Cardinality({k \in 1..7 : outScale[k].chordType = "Major"}) = 3
        /\ Cardinality({k \in 1..7 : outScale[k].chordType = "Minor"}) = 3
        /\ Cardinality({k \in 1..7 : outScale[k].chordType = "Diminished"}) = 1

C10_Witness ==
    /\ fn = "scale" /\ inTonic.name = "F#" /\ inMode.name = "Phrygian"
    /\ outScale[5].chordType = "Diminished"
    /\ outScale[1].chordType = "Minor"

(***************************************************************************)
(* Properties of the coordinator and its broadcasts (checked under Spec)   *)
(***************************************************************************)

TriadNames(triad) == {triad[i].name : i \in DOMAIN triad}

\* The degrees of the last broadcast scale that carry a chordNote.
Marked == {k \in DOMAIN stateChange.scale : stateChange.scale[k].chordNote # Undefined}

\* The degrees of the last broadcast scale whose name is a name of the triad.
Matching(triad) ==
    {k \in DOMAIN stateChange.scale : stateChange.scale[k].name \in TriadNames(triad)}

\* C4: whatever triad the program hands to appendTriad, exactly the 3 degrees
\* whose name equals the name of a triad pitch get a chordNote, equal to the
\* position of that pitch in the triad, and the other 4 degrees get none;
\* without a triad no degree has a chordNote.
C4_ExactlyThreeRoles ==
    calls > 0 =>
        /\ lastTriad = NoTriad => Marked = {}
        /\ lastTriad # NoTriad =>
             /\ Marked = Matching(lastTriad)
             /\ Cardinality(Marked) = 3
             /\ Cardinality(DOMAIN stateChange.scale \ Marked) = 4
             /\ \A k \in Marked :
                  lastTriad[stateChange.scale[k].chordNote + 1].name = stateChange.scale[k].name

C6_Delivery ==
    calls > 0 =>
        /\ listeners = <<"cof.update", "modes.update", "gtr.update">>
        /\ deliveries = [i \in 1..Len(listeners) |->
                            [listener |-> listeners[i], change |-> stateChange]]
        /\ stateChange.tonic = currentTonic
        /\ stateChange.mode = currentMode
        /\ \A i \in 1..Len(listeners) :
             /\ received[listeners[i]] = calls
             /\ seen[listeners[i]] = [tonic |-> currentTonic, mode |-> currentMode]

C6_Witness ==
    /\ calls = 2
    /\ Len(deliveries) = 3
    /\ deliveries[3].listener = "gtr.update"
    /\ lastOp = "changeTonic"
    /\ prevChange.tonic.index # stateChange.tonic.index
    /\ currentMode.name = "Dorian"
    /\ seen["gtr.update"] = [tonic |-> currentTonic, mode |-> currentMode]

\* The pitch of degree k (1-based) of the scale of a tonic index and a mode,
\* by the rotated step pattern.
PitchAt(tonicIndex, mode, k) ==
    (tonicIndex + SumSeq([j \in 1..(k - 1) |-> scaleTones[((j - 1 + mode.index) % 7) + 1]])) % 12

\* The role of a note name in a triad: the last slot of that name, if any.
RoleIn(triad, nm) ==
    IF \E p \in DOMAIN triad : triad[p].name = nm
    THEN (CHOOSE p \in DOMAIN triad :
             triad[p].name = nm /\ \A q \in DOMAIN triad : triad[q].name = nm => q <= p) - 1
    ELSE Undefined

\* C7: the scale an operation broadcasts is a function of the current tonic,
\* the current mode and the triad of that operation alone: its pitches are
\* those of the rotated step pattern from the tonic and its chordNotes are
\* the roles in that triad, so no chordNote written on an earlier broadcast's
\* scale shows in it.
C7_HistoryIndependent ==
    calls > 0 =>
        /\ stateChange.tonic = currentTonic
        /\ stateChange.mode = currentMode
        /\ Len(stateChange.scale) = 7
        /\ \A k \in 1..7 :
             LET d == stateChange.scale[k]
             IN /\ d.index = PitchAt(currentTonic.index, currentMode, k)
                /\ d.name = notes[d.index + 1].name
                /\ d.degree = k - 1
                /\ d.chordNote = RoleIn(lastTriad, d.name)

\* The same tonic and mode broadcast twice in a row, the first time with a
\* chord marked, the second time without.
C7_Witness ==
    /\ calls >= 2
    /\ prevChange.tonic.index = stateChange.tonic.index
    /\ prevChange.mode = stateChange.mode
    /\ \E k \in 1..7 : prevChange.scale[k].chordNote # Undefined
    /\ lastTriad = NoTriad
    /\ Marked = {}

====
